---- MODULE Spec2Model ----
(***************************************************************************)
(* Rank index of tmundz/task-scheduler: src/datastructure/avl.rs.          *)
(*                                                                         *)
(* The tree is an arena: `nodes` is the sequence of every AvlTree value    *)
(* that exists, nodes[Root] is the value the caller owns, and a child      *)
(* link Option<Arc<Mutex<AvlTree>>> is <<>> (None) or <<i>> (Some, the     *)
(* arena index of the child).  An Option is a sequence of length 0 or 1.   *)
(***************************************************************************)
EXTENDS Integers, Sequences, FiniteSets, TLC

\* ---------------------------------------------------------------- bounds
MaxRank == 3
MaxInserts == 6
NumThreads == 2
MaxCalls == 3
MaxConcRank == 1
MaxRun == 11
MaxGap == 2
MaxRotInserts == 5

Ranks == 0..MaxRank
ConcRanks == 0..MaxConcRank
Threads == 1..NumThreads

\* ------------------------------------------------------------- data types
\* Task { id, rank, state }
Task(id, rank, state) == [id |-> id, rank |-> rank, state |-> state]

None == <<>>
Some(x) == <<x>>

\* enum TaskorLink { STask(Task), Link(LinkList) }
STask(t) == <<"STask", t>>
Link(ll) == <<"Link", ll>>

\* Ordering returned by a.cmp(&b) on i32
cmp(a, b) == IF a = b THEN "Equal" ELSE IF a > b THEN "Greater" ELSE "Less"

max(a, b) == IF a >= b THEN a ELSE b

\* ------------------------------------------------- linklist (not in src/)
\* LinkList::new(): the empty list
LinkList_new == <<>>

\* LinkList::push_back: append at the tail
push_back(ll, t) == Append(ll, t)

\* LinkList::get_head: Option of the first element
get_head(ll) == IF Len(ll) = 0 THEN None ELSE Some(ll[1])

\* ------------------------------------------------------------------ state
VARIABLES
    nodes,      \* the arena of AvlTree values
    hist,       \* every task passed to insert, in the order the calls ran
    lock,       \* lock[i]: the thread holding the guard of node i's mutex, 0 if free
    poisoned,   \* poisoned[i]: a thread panicked while holding node i's guard
    pc,         \* pc[t]: where thread t is in its insert call
    stk,        \* stk[t]: the nodes whose guards thread t holds, outermost first
    cur,        \* cur[t]: Option of the task thread t is inserting
    tgt,        \* tgt[t]: the node whose mutex thread t is about to lock
    lh,         \* lh[t]: left_height read by update_height
    pre,        \* the arena before the last call on the tree
    op,         \* the last call on the tree and how it ended
    prev        \* pre and op as they were before the last call

vars == <<nodes, hist, lock, poisoned, pc, stk, cur, tgt, lh, pre, op, prev>>

Root == 1

\* AvlTree::new(task): the task is not stored
new(task) == [val |-> None, height |-> 1, left |-> None, right |-> None]

\* AvlTree::is_empty
is_empty(node) == node.val = None

\* the height a child link contributes: .map(|node| node.lock().unwrap().height).unwrap_or(0)
child_height(ns, link) == IF link = None THEN 0 ELSE ns[link[1]].height

\* AvlTree::balance_factor
balance_factor(ns, n) == child_height(ns, ns[n].left) - child_height(ns, ns[n].right)

\* the value update_height stores
NoPlusOne(l, r) == max(l, r)
new_height(l, r) == 1 + max(l, r)

\* AvlTree::update_height
update_height(ns, n) ==
    [ns EXCEPT ![n].height =
        new_height(child_height(ns, ns[n].left), child_height(ns, ns[n].right))]

\* AvlTree::balance: the rotation dispatch is comments only
balance(ns, n) == update_height(ns, n)

\* r_insert, Ordering::Equal at a single task: the chain [cur_task, new_val]
PromoteEmpty(cur_task, new_val) == Link(LinkList_new)
promote(cur_task, new_val) ==
    Link(push_back(push_back(LinkList_new, cur_task), new_val))

\* the representative rank r_insert compares new_val.rank with
\* (v is a TaskorLink; a chain is compared by its head, get_head().unwrap())
rep_rank(v) == IF v[1] = "STask" THEN v[2].rank ELSE get_head(v[2])[1].rank

\* r_insert's three-way comparison at a node value
EqualAsGreater(v, new_val) ==
    IF rep_rank(v) > new_val.rank \/ rep_rank(v) = new_val.rank
    THEN "Greater" ELSE "Less"
LessAsEqual(v, new_val) ==
    IF rep_rank(v) <= new_val.rank THEN "Equal" ELSE "Greater"
ChainReversed(v, new_val) ==
    IF v[1] = "STask" THEN cmp(rep_rank(v), new_val.rank)
    ELSE cmp(new_val.rank, rep_rank(v))
compare(v, new_val) == cmp(rep_rank(v), new_val.rank)

\* r_insert up to its recursive call, at node n holding a value:
\*   ns      the arena after the node's own assignments
\*   descend Option of the child r_insert locks and calls insert on
r_insert_local(ns, n, new_val) ==
    LET v == ns[n].val[1]
        ord == compare(v, new_val)
        fresh == Len(ns) + 1
    IN  IF v[1] = "STask"
        THEN CASE ord = "Equal" ->
                    [ns |-> [ns EXCEPT ![n].val = Some(promote(v[2], new_val))],
                     descend |-> None]
               [] ord = "Greater" ->
                    IF ns[n].right # None
                    THEN [ns |-> ns, descend |-> ns[n].right]
                    ELSE [ns |-> Append([ns EXCEPT ![n].right = Some(fresh)], new(new_val)),
                          descend |-> None]
               [] ord = "Less" ->
                    IF ns[n].left # None
                    THEN [ns |-> ns, descend |-> ns[n].left]
                    ELSE [ns |-> Append([ns EXCEPT ![n].left = Some(fresh)], new(new_val)),
                          descend |-> None]
        ELSE CASE ord = "Equal" ->
                    [ns |-> [ns EXCEPT ![n].val = Some(Link(push_back(v[2], new_val)))],
                     descend |-> None]
               [] ord = "Greater" ->
                    [ns |-> ns, descend |-> ns[n].right]
               [] ord = "Less" ->
                    [ns |-> ns, descend |-> ns[n].left]

\* the assignment insert makes at an empty node
fill(ns, n, new_val) == [ns EXCEPT ![n].val = Some(STask(new_val))]

RECURSIVE insert(_, _, _), r_insert(_, _, _)

\* AvlTree::insert on node n
insert(ns, n, new_val) ==
    IF is_empty(ns[n]) THEN fill(ns, n, new_val) ELSE r_insert(ns, n, new_val)

\* AvlTree::r_insert on node n (n holds a value: insert is its only caller)
r_insert(ns, n, new_val) ==
    LET s == r_insert_local(ns, n, new_val)
        after == IF s.descend = None THEN s.ns ELSE insert(s.ns, s.descend[1], new_val)
    IN  balance(after, n)

\* ---------------------------------------------------------- sequential use
\* a call on the tree, as the caller sees it:
\*   kind   "insert", "left" (left_rotation), "right" (right_rotation)
\*   at     the node the method was called on
\*   out    "returned", "blocked" (waits for a mutex for ever), "panicked"
\*   task   Option of the task passed to insert
\*   build  the edition the crate is built with, once a call depended on it
\*   relock Option of the mutex the call asked for while holding its guard
NoCall ==
    [kind |-> "none", at |-> Root, out |-> "returned", task |-> None,
     build |-> "-", relock |-> None]

InsertCall(task) ==
    [kind |-> "insert", at |-> Root, out |-> "returned", task |-> Some(task),
     build |-> "-", relock |-> None]

Init ==
    /\ nodes = <<new(Task(0, 0, 0))>>
    /\ hist = <<>>
    /\ lock = <<0>>
    /\ poisoned = <<FALSE>>
    /\ pc = [t \in Threads |-> "idle"]
    /\ stk = [t \in Threads |-> <<>>]
    /\ cur = [t \in Threads |-> None]
    /\ tgt = [t \in Threads |-> Root]
    /\ lh = [t \in Threads |-> 0]
    /\ pre = <<new(Task(0, 0, 0))>>
    /\ op = NoCall
    /\ prev = [pre |-> <<new(Task(0, 0, 0))>>, op |-> NoCall]

conc_vars == <<pc, stk, cur, tgt, lh>>

call_vars == <<pre, op, prev>>

\* avl.insert(task) by the one owner of the tree; the caller numbers its
\* tasks 1, 2, 3, ... in arrival order
Insert ==
    /\ Len(hist) < MaxInserts
    /\ \E rank \in Ranks :
        LET task == Task(Len(hist) + 1, rank, 0)
        IN  /\ nodes' = insert(nodes, Root, task)
            /\ hist' = Append(hist, task)
            /\ op' = InsertCall(task)
    /\ pre' = nodes
    /\ prev' = [pre |-> pre, op |-> op]
    /\ lock' = [i \in 1..Len(nodes') |-> 0]
    /\ poisoned' = [i \in 1..Len(nodes') |-> FALSE]
    /\ UNCHANGED conc_vars

Next == Insert

Spec == Init /\ [][Next]_vars

\* ------------------------------------------------- sorted arrival of ranks
\* avl.insert(task) with strictly increasing ranks: 1, 2, 3, ... when every
\* gap is 1
InsertSorted ==
    /\ Len(hist) < MaxRun
    /\ \E gap \in 1..MaxGap :
        LET last == IF hist = <<>> THEN 0 ELSE hist[Len(hist)].rank
            task == Task(Len(hist) + 1, last + gap, 0)
        IN  /\ nodes' = insert(nodes, Root, task)
            /\ hist' = Append(hist, task)
            /\ op' = InsertCall(task)
    /\ pre' = nodes
    /\ prev' = [pre |-> pre, op |-> op]
    /\ lock' = [i \in 1..Len(nodes') |-> 0]
    /\ poisoned' = [i \in 1..Len(nodes') |-> FALSE]
    /\ UNCHANGED conc_vars

SortedNext == InsertSorted

SortedSpec == Init /\ [][SortedNext]_vars

\* ------------------------------------------------------- concurrent use
\* insert takes &mut self: threads that share one tree reach the root the
\* way r_insert reaches a child, through the root's own Mutex, and hold its
\* guard for the whole call.

\* Mutex::lock returns only when no guard of the mutex is alive
LockIgnoresHolder(l, n) == TRUE
lock_free(l, n) == l[n] = 0

\* a MutexGuard going out of scope releases the mutex
GuardLeaked(l, n) == l
drop_guard(l, n) == [l EXCEPT ![n] = 0]

top(t) == stk[t][Len(stk[t])]

\* calls made whose insert has not yet taken the root
Pending == {t \in Threads : pc[t] = "lock" /\ stk[t] = <<>>}

\* thread t calls insert(task) on the shared tree
Call(t) ==
    /\ pc[t] = "idle"
    /\ UNCHANGED call_vars
    /\ Len(hist) + Cardinality(Pending) < MaxCalls
    /\ \E rank \in ConcRanks :
        cur' = [cur EXCEPT ![t] = Some(Task(t, rank, 0))]
    /\ tgt' = [tgt EXCEPT ![t] = Root]
    /\ pc' = [pc EXCEPT ![t] = "lock"]
    /\ UNCHANGED <<nodes, hist, lock, poisoned, stk, lh>>

\* a panic unwinds thread t: every guard it holds is dropped and poisons
\* its mutex
Panic(t) ==
    /\ poisoned' = [i \in 1..Len(poisoned) |->
                        poisoned[i] \/ \E k \in 1..Len(stk[t]) : stk[t][k] = i]
    /\ lock' = [i \in 1..Len(lock) |-> IF lock[i] = t THEN 0 ELSE lock[i]]
    /\ stk' = [stk EXCEPT ![t] = <<>>]
    /\ pc' = [pc EXCEPT ![t] = "panicked"]
    /\ UNCHANGED <<nodes, hist, cur, tgt, lh>>

\* x.lock().unwrap() on tgt[t], then the call of insert on it
Lock(t) ==
    /\ pc[t] = "lock"
    /\ UNCHANGED call_vars
    /\ lock_free(lock, tgt[t])
    /\ IF poisoned[tgt[t]]
       THEN Panic(t)
       ELSE /\ lock' = [lock EXCEPT ![tgt[t]] = t]
            /\ stk' = [stk EXCEPT ![t] = Append(@, tgt[t])]
            /\ hist' = IF stk[t] = <<>> THEN Append(hist, cur[t][1]) ELSE hist
            /\ pc' = [pc EXCEPT ![t] = "insert"]
            /\ UNCHANGED <<nodes, poisoned, cur, tgt, lh>>

\* insert on the node whose guard was just taken: the empty case, or
\* r_insert up to its recursive call
InsertStep(t) ==
    /\ pc[t] = "insert"
    /\ UNCHANGED call_vars
    /\ LET n == top(t)
           new_val == cur[t][1]
       IN  IF is_empty(nodes[n])
           THEN /\ nodes' = fill(nodes, n, new_val)
                /\ pc' = [pc EXCEPT ![t] = "drop"]
                /\ UNCHANGED <<hist, lock, poisoned, stk, cur, tgt, lh>>
           ELSE IF nodes[n].val[1][1] = "Link" /\ get_head(nodes[n].val[1][2]) = None
           THEN Panic(t)
           ELSE LET s == r_insert_local(nodes, n, new_val)
                IN  /\ nodes' = s.ns
                    /\ lock' = lock \o [i \in 1..(Len(s.ns) - Len(nodes)) |-> 0]
                    /\ poisoned' = poisoned \o [i \in 1..(Len(s.ns) - Len(nodes)) |-> FALSE]
                    /\ IF s.descend = None
                       THEN /\ pc' = [pc EXCEPT ![t] = "uh_left"]
                            /\ tgt' = tgt
                       ELSE /\ pc' = [pc EXCEPT ![t] = "lock"]
                            /\ tgt' = [tgt EXCEPT ![t] = s.descend[1]]
                    /\ UNCHANGED <<hist, stk, cur, lh>>

\* balance -> update_height: left_height, read under the left child's lock
UhLeft(t) ==
    /\ pc[t] = "uh_left"
    /\ UNCHANGED call_vars
    /\ LET link == nodes[top(t)].left
       IN  IF link = None
           THEN /\ lh' = [lh EXCEPT ![t] = 0]
                /\ pc' = [pc EXCEPT ![t] = "uh_right"]
                /\ UNCHANGED <<nodes, hist, lock, poisoned, stk, cur, tgt>>
           ELSE /\ lock_free(lock, link[1])
                /\ IF poisoned[link[1]]
                   THEN Panic(t) /\ lh' = lh
                   ELSE /\ lh' = [lh EXCEPT ![t] = nodes[link[1]].height]
                        /\ pc' = [pc EXCEPT ![t] = "uh_right"]
                        /\ UNCHANGED <<nodes, hist, lock, poisoned, stk, cur, tgt>>

\* update_height: right_height, read under the right child's lock, and the
\* assignment of self.height
UhRight(t) ==
    /\ pc[t] = "uh_right"
    /\ UNCHANGED call_vars
    /\ LET link == nodes[top(t)].right
           rh == IF link = None THEN 0 ELSE nodes[link[1]].height
       IN  /\ link # None => lock_free(lock, link[1])
           /\ IF link # None /\ poisoned[link[1]]
              THEN Panic(t)
              ELSE /\ nodes' = [nodes EXCEPT ![top(t)].height = new_height(lh[t], rh)]
                   /\ pc' = [pc EXCEPT ![t] = "drop"]
                   /\ UNCHANGED <<hist, lock, poisoned, stk, cur, tgt>>
    /\ UNCHANGED lh

\* insert returns: the guard of its node goes out of scope, and the caller,
\* r_insert on the parent, goes on to self.balance()
Drop(t) ==
    /\ pc[t] = "drop"
    /\ UNCHANGED call_vars
    /\ lock' = drop_guard(lock, top(t))
    /\ stk' = [stk EXCEPT ![t] = SubSeq(@, 1, Len(@) - 1)]
    /\ IF Len(stk[t]) = 1
       THEN /\ pc' = [pc EXCEPT ![t] = "idle"]
            /\ cur' = [cur EXCEPT ![t] = None]
       ELSE /\ pc' = [pc EXCEPT ![t] = "uh_left"]
            /\ cur' = cur
    /\ UNCHANGED <<nodes, hist, poisoned, tgt, lh>>

\* the steps of a call that is under way
Run(t) == Lock(t) \/ InsertStep(t) \/ UhLeft(t) \/ UhRight(t) \/ Drop(t)

ConcNext ==
    \/ \E t \in Threads : Call(t)
    \/ \E t \in Threads : Lock(t)
    \/ \E t \in Threads : InsertStep(t)
    \/ \E t \in Threads : UhLeft(t)
    \/ \E t \in Threads : UhRight(t)
    \/ \E t \in Threads : Drop(t)

\* a thread that can take a step is scheduled eventually
ConcSpec == Init /\ [][ConcNext]_vars /\ \A t \in Threads : WF_vars(Run(t))

\* the arena after inserting the tasks of h, in order, into ns
RECURSIVE insert_all(_, _)
insert_all(ns, h) ==
    IF h = <<>> THEN ns ELSE insert_all(insert(ns, Root, Head(h)), Tail(h))

\* the node indices of the subtree behind a child link
RECURSIVE subtree(_, _)
subtree(ns, link) ==
    IF link = None THEN {}
    ELSE {link[1]} \cup subtree(ns, ns[link[1]].left) \cup subtree(ns, ns[link[1]].right)

\* ------------------------------------------------------------- rotations
\* left_rotation and right_rotation have no caller in the crate (balance is
\* a stub); they are applied here to the subtrees insert builds.

\* Rust editions up to 2021 keep the temporaries of an `if let` scrutinee,
\* here the MutexGuard of new_root.lock().unwrap(), alive to the end of the
\* whole if/else; edition 2024 drops them before the else block.  In the then
\* block the guard is alive under every edition.
Builds == {"2021", "2024"}
guard_alive_in_else(build) == build = "2021"

\* the result of a rotation body: the arena, and Option of the pivot whose
\* mutex the body locks again while the scrutinee's guard on it is alive
\* (Mutex::lock then never returns: it blocks or panics)

\* AvlTree::left_rotation on node n
left_rotation(ns, n, build) ==
    IF ns[n].right = None
    THEN [ns |-> update_height(ns, n), relock |-> None]
    ELSE LET new_root == ns[n].right[1]
             taken == [ns EXCEPT ![n].right = None]
         IN  IF ns[new_root].left # None
             THEN [ns |-> [taken EXCEPT ![new_root].left = None],
                   relock |-> Some(new_root)]
             ELSE IF guard_alive_in_else(build)
             THEN [ns |-> taken, relock |-> Some(new_root)]
             ELSE LET new_left == [val |-> ns[n].val, height |-> ns[n].height,
                                   left |-> ns[n].left, right |-> None]
                      linked == Append([taken EXCEPT ![n].val = ns[new_root].val,
                                                     ![n].left = Some(Len(ns) + 1),
                                                     ![n].right = ns[new_root].right],
                                       new_left)
                  IN  [ns |-> update_height(linked, n), relock |-> None]

\* AvlTree::right_rotation on node n
right_rotation(ns, n, build) ==
    IF ns[n].left = None
    THEN [ns |-> update_height(ns, n), relock |-> None]
    ELSE LET new_root == ns[n].left[1]
             taken == [ns EXCEPT ![n].left = None]
         IN  IF ns[new_root].right # None
             THEN [ns |-> [taken EXCEPT ![new_root].right = None],
                   relock |-> Some(new_root)]
             ELSE IF guard_alive_in_else(build)
             THEN [ns |-> taken, relock |-> Some(new_root)]
             ELSE LET new_right == [val |-> ns[n].val, height |-> ns[n].height,
                                    left |-> None, right |-> ns[n].right]
                      linked == Append([taken EXCEPT ![n].val = ns[new_root].val,
                                                     ![n].left = ns[new_root].left,
                                                     ![n].right = Some(Len(ns) + 1)],
                                       new_right)
                  IN  [ns |-> update_height(linked, n), relock |-> None]

\* whether the rotation reads the build: the pivot exists and has no inner
\* grandchild
reaches_else(ns, n, kind) ==
    IF kind = "left"
    THEN ns[n].right # None /\ ns[ns[n].right[1]].left = None
    ELSE ns[n].left # None /\ ns[ns[n].left[1]].right = None

\* the caller applies a rotation to node n; a lock of a mutex whose guard
\* the caller holds blocks for ever or panics, and a panic drops the
\* subtrees the body had taken out of the tree
Rotate(kind, n, build, out) ==
    LET r == IF kind = "left" THEN left_rotation(nodes, n, build)
             ELSE right_rotation(nodes, n, build)
    IN  /\ (r.relock = None) = (out = "returned")
        /\ nodes' = r.ns
        /\ lock' = [i \in 1..Len(r.ns) |->
                        IF out = "blocked" /\ r.relock = Some(i) THEN 1 ELSE 0]
        /\ poisoned' = [i \in 1..Len(r.ns) |-> out = "panicked" /\ r.relock = Some(i)]
        /\ pre' = nodes
        /\ op' = [kind |-> kind, at |-> n, out |-> out, task |-> None,
                  build |-> IF reaches_else(nodes, n, kind) THEN build ELSE op.build,
                  relock |-> r.relock]
        /\ prev' = [pre |-> pre, op |-> op]
        /\ UNCHANGED <<hist, conc_vars>>

\* a rotation can be called while the caller is running, and here at most
\* two in a row
CanRotate ==
    /\ op.out = "returned"
    /\ prev.op.kind \notin {"left", "right"}

RotateLeft ==
    /\ CanRotate
    /\ \E n \in subtree(nodes, Some(Root)), build \in Builds,
          out \in {"returned", "blocked", "panicked"} :
        /\ op.build \in {"-", build}
        /\ Rotate("left", n, build, out)

RotateRight ==
    /\ CanRotate
    /\ \E n \in subtree(nodes, Some(Root)), build \in Builds,
          out \in {"returned", "blocked", "panicked"} :
        /\ op.build \in {"-", build}
        /\ Rotate("right", n, build, out)

\* the tree is built by inserts before it is rotated
RotBuild ==
    /\ op.kind \in {"none", "insert"}
    /\ Len(hist) < MaxRotInserts
    /\ Insert

RotNext == RotBuild \/ RotateLeft \/ RotateRight

RotSpec == Init /\ [][RotNext]_vars

\* ------------------------------------------------ reading the tree back
\* the children of node n
children(ns, n) ==
    {ns[n].left[i] : i \in 1..Len(ns[n].left)} \cup {ns[n].right[i] : i \in 1..Len(ns[n].right)}

\* the nodes that hold a value
Valued(ns) == {n \in 1..Len(ns) : ~is_empty(ns[n])}

\* the tasks a node value holds, in chain order
tasks_of(v) == IF v[1] = "STask" THEN <<v[2]>> ELSE v[2]

\* the rank a valued node stands for
node_rank(ns, n) == rep_rank(ns[n].val[1])

\* a walk from node n by r_insert's comparison rule: the tasks of the node
\* whose rank is `rank`, <<>> when the walk ends without one
RECURSIVE find(_, _, _)
find(ns, link, rank) ==
    IF link = None THEN <<>>
    ELSE LET n == link[1] IN
         IF is_empty(ns[n]) THEN <<>>
         ELSE LET ord == cmp(node_rank(ns, n), rank) IN
              CASE ord = "Equal" -> tasks_of(ns[n].val[1])
                [] ord = "Greater" -> find(ns, ns[n].right, rank)
                [] ord = "Less" -> find(ns, ns[n].left, rank)

\* the tasks of `h` inserted with rank r, in insertion order
InsertedWith(h, r) == SelectSeq(h, LAMBDA t : t.rank = r)

abs(x) == IF x < 0 THEN -x ELSE x

\* ----------------------------------------------------------------- claims

\* C1: after any sequence of inserts every rank in a node's left subtree is
\* strictly smaller than the node's rank and every rank in its right subtree
\* strictly larger (smaller rank sorts left).
SmallerSortsLeft ==
    \A n \in Valued(nodes) :
        /\ \A m \in subtree(nodes, nodes[n].left) \cap Valued(nodes) :
                node_rank(nodes, m) < node_rank(nodes, n)
        /\ \A m \in subtree(nodes, nodes[n].right) \cap Valued(nodes) :
                node_rank(nodes, m) > node_rank(nodes, n)

\* C2: for every rank r the node found for r holds exactly the tasks that
\* were inserted with rank r, each once, in insertion order.
NoTaskLost ==
    \A r \in Ranks : find(nodes, Some(Root), r) = InsertedWith(hist, r)

\* C3: after every completed insert every node has
\* |height(left) - height(right)| <= 1.
AvlBalanced ==
    \A n \in 1..Len(nodes) : abs(balance_factor(nodes, n)) <= 1

\* C4: no two nodes of the tree hold the same rank, and every rank that was
\* inserted twice or more is still held by at most one node.
OneNodePerRank ==
    /\ \A n, m \in Valued(nodes) : node_rank(nodes, n) = node_rank(nodes, m) => n = m
    /\ \A r \in Ranks : Cardinality({n \in Valued(nodes) : node_rank(nodes, n) = r}) <= 1

\* a rank was inserted three times, other ranks came in between, and the
\* tree has several valued nodes, one of them a chain
OneNodePerRankWitness ==
    /\ \E r \in Ranks : Len(InsertedWith(hist, r)) >= 3
    /\ Cardinality(Valued(nodes)) >= 3
    /\ \E n \in Valued(nodes) : nodes[n].val[1][1] = "Link" /\ n # Root

\* C5: k >= 2 inserts of one rank leave one chain holding those k tasks in
\* insertion order.
ChainHoldsEveryDuplicate ==
    \A r \in Ranks :
        Len(InsertedWith(hist, r)) >= 2 =>
            \E n \in Valued(nodes) : nodes[n].val[1] = Link(InsertedWith(hist, r))

\* C6: the stored height of every node is 1 + max(height(left), height(right)),
\* an absent child counting 0.
HeightsConsistent ==
    \A n \in 1..Len(nodes) :
        nodes[n].height =
            1 + max(child_height(nodes, nodes[n].left), child_height(nodes, nodes[n].right))

\* a tree three levels deep with a node that has both children
HeightsConsistentWitness ==
    /\ nodes[Root].height >= 3
    /\ \E n \in 1..Len(nodes) : nodes[n].left # None /\ nodes[n].right # None

\* floor(2^(h / 1.44)) for h = 1, 2, ...: the most ranks-plus-one a tree of
\* height bound h may stand for
Threshold == <<1, 2, 4, 6, 11, 17, 29, 47, 76>>

\* ceil(1.44 * log2(n + 1)): the least h with n + 1 <= 2^(h / 1.44)
HeightBound(n) ==
    CHOOSE h \in 1..Len(Threshold) :
        /\ n + 1 <= Threshold[h]
        /\ \A g \in 1..(h - 1) : n + 1 > Threshold[g]

DistinctRanks(h) == {h[i].rank : i \in 1..Len(h)}

\* C7: after inserting n distinct ranks, each once, the root's height is at
\* most ceil(1.44 * log2(n + 1)).
HeightLogarithmic ==
    (hist # <<>> /\ Cardinality(DistinctRanks(hist)) = Len(hist)) =>
        nodes[Root].height <= HeightBound(Len(hist))

\* C8: a call of insert never panics, never descends deeper than the tree is
\* high, and returns.
InsertTotal ==
    /\ [](\A t \in Threads :
            pc[t] # "panicked" /\ Len(stk[t]) <= nodes[Root].height)
    /\ \A t \in Threads : (stk[t] # <<>>) ~> (stk[t] = <<>> /\ pc[t] = "idle")

\* an insert is at a chain, the node r_insert reads with get_head().unwrap(),
\* with a task of another rank than the chain's
InsertTotalWitness ==
    \E t \in Threads :
        /\ pc[t] = "insert"
        /\ ~is_empty(nodes[top(t)])
        /\ nodes[top(t)].val[1][1] = "Link"
        /\ cur[t][1].rank # rep_rank(nodes[top(t)].val[1])

\* C9: whenever no insert is under way the tree is the one that inserting the
\* same tasks one after the other, in the order the calls took the root,
\* builds: same nodes, same values, same links.
ConcurrentEqualsSequential ==
    lock[Root] = 0 => nodes = insert_all(<<new(Task(0, 0, 0))>>, hist)

\* both threads are done, their calls ran interleaved (1, 2, 1), thread 1
\* and thread 2 inserted disjoint ranks, and the tree has grown
ConcurrentEqualsSequentialWitness ==
    /\ \A t \in Threads : pc[t] = "idle"
    /\ Len(hist) >= 3
    /\ hist[1].id = 1 /\ hist[2].id = 2 /\ hist[3].id = 1
    /\ \A i, j \in 1..Len(hist) : hist[i].id # hist[j].id => hist[i].rank # hist[j].rank
    /\ Len(nodes) >= 2

\* the node whose mutex thread t is asking for, if any
wants(t) ==
    CASE pc[t] = "lock" -> Some(tgt[t])
      [] pc[t] = "uh_left" -> nodes[top(t)].left
      [] pc[t] = "uh_right" -> nodes[top(t)].right
      [] OTHER -> None

\* thread t waits for a guard that thread u holds
waits_for(t, u) == wants(t) # None /\ lock[wants(t)[1]] = u

\* the guards a thread holds were taken parent first, child next, from the
\* root down, and the next mutex it asks for is a child of the last
ParentToChild ==
    \A t \in Threads :
        /\ \A k \in 1..Len(stk[t]) :
            /\ lock[stk[t][k]] = t
            /\ k = 1 => stk[t][k] = Root
            /\ k > 1 => stk[t][k] \in children(nodes, stk[t][k - 1])
        /\ wants(t) # None =>
            IF stk[t] = <<>> THEN wants(t)[1] = Root
            ELSE wants(t)[1] \in children(nodes, top(t))

\* no set of threads in which every thread waits for another of the set
NoWaitCycle ==
    \A S \in SUBSET Threads :
        S # {} => \E t \in S : \A u \in S : ~waits_for(t, u)

\* C10: threads take node locks parent to child only, never wait for each
\* other in a cycle, and every insert that was called completes.
NoDeadlock ==
    /\ [](ParentToChild /\ NoWaitCycle)
    /\ \A t \in Threads : (cur[t] # None) ~> (cur[t] = None)

\* one thread holds the root's guard and asks for the lock of a child while
\* the other thread waits for the root
NoDeadlockWitness ==
    \E t, u \in Threads :
        /\ stk[t] # <<>>
        /\ wants(t) # None
        /\ waits_for(u, t)

\* C13: an insert of a rank that is not stored, into a tree that is not
\* empty, adds exactly one node, a leaf holding the inserted task alone.
InsertAddsSingletonLeaf ==
    (/\ op.kind = "insert"
     /\ ~is_empty(pre[Root])
     /\ find(pre, Some(Root), op.task[1].rank) = <<>>)
    => /\ Len(nodes) = Len(pre) + 1
       /\ nodes[Len(nodes)] =
            [val |-> Some(STask(op.task[1])), height |-> 1, left |-> None, right |-> None]

\* C14: once a task was inserted no node of the tree is empty.
NoEmptyNode ==
    hist # <<>> => \A n \in 1..Len(nodes) : ~is_empty(nodes[n])

\* C17: every chain is non-empty and each of its elements has the rank of
\* its head.
ChainsUniform ==
    \A n \in Valued(nodes) :
        nodes[n].val[1][1] = "Link" =>
            /\ Len(nodes[n].val[1][2]) > 0
            /\ \A i \in 1..Len(nodes[n].val[1][2]) :
                    nodes[n].val[1][2][i].rank = nodes[n].val[1][2][1].rank

\* a chain of three below the root, in a tree that also holds other ranks
ChainsUniformWitness ==
    /\ \E n \in Valued(nodes) :
        n # Root /\ nodes[n].val[1][1] = "Link" /\ Len(nodes[n].val[1][2]) >= 3
    /\ Cardinality(DistinctRanks(hist)) >= 3

RepeatInsertFrame ==
    (op.kind = "insert" /\ find(pre, Some(Root), op.task[1].rank) # <<>>)
    => /\ Len(nodes) = Len(pre)
       /\ \A n \in 1..Len(pre) :
            /\ nodes[n].left = pre[n].left
            /\ nodes[n].right = pre[n].right
            /\ nodes[n].height = pre[n].height
            /\ IF ~is_empty(pre[n]) /\ node_rank(pre, n) = op.task[1].rank
               THEN tasks_of(nodes[n].val[1]) = Append(tasks_of(pre[n].val[1]), op.task[1])
               ELSE nodes[n].val = pre[n].val

\* the rank of a chain below the root, in a tree of three nodes or more,
\* was inserted again
RepeatInsertFrameWitness ==
    /\ op.kind = "insert"
    /\ Len(pre) >= 3
    /\ \E n \in Valued(pre) :
        /\ node_rank(pre, n) = op.task[1].rank
        /\ pre[n].val[1][1] = "Link"
        /\ n # Root

\* the values of the subtree behind a link, left-node-right (an empty
\* node contributes its None)
RECURSIVE in_order(_, _)
in_order(ns, link) ==
    IF link = None THEN <<>>
    ELSE in_order(ns, ns[link[1]].left) \o <<ns[link[1]].val>> \o in_order(ns, ns[link[1]].right)

\* the subtree behind a link as <<left, value, right>>, None when absent
RECURSIVE shape(_, _)
shape(ns, link) ==
    IF link = None THEN <<>>
    ELSE <<shape(ns, ns[link[1]].left), ns[link[1]].val, shape(ns, ns[link[1]].right)>>

Rotations == {"left", "right"}

\* C11: a rotation that has ended leaves the left-node-right sequence of the
\* values of the subtree it was applied to as it was: no subtree is dropped.
RotationKeepsInOrder ==
    (op.kind \in Rotations /\ op.out # "blocked") =>
        in_order(nodes, Some(op.at)) = in_order(pre, Some(op.at))

\* C12: left_rotation at a node that has a right child can be followed by
\* right_rotation at the same node, and the two leave the subtree as it was,
\* value for value and position for position.
RoundTripRestores ==
    /\ (op.kind = "left" /\ pre[op.at].right # None) => op.out = "returned"
    /\ (/\ op.kind = "right" /\ prev.op.kind = "left" /\ prev.op.at = op.at
        /\ prev.pre[op.at].right # None)
       => /\ op.out = "returned"
          /\ in_order(nodes, Some(op.at)) = in_order(prev.pre, Some(op.at))
          /\ shape(nodes, Some(op.at)) = shape(prev.pre, Some(op.at))

\* the nodes a rotation that returned has touched: the subtree root and,
\* when there was a pivot, the node the old root was demoted to
touched(ns, before, o) ==
    {o.at} \cup
    (IF o.kind = "left" /\ before[o.at].right # None THEN {ns[o.at].left[1]}
     ELSE IF o.kind = "right" /\ before[o.at].left # None THEN {ns[o.at].right[1]}
     ELSE {})

\* C15: after a rotation returns every node it touched has height
\* 1 + max(height(left), height(right)).
RotationHeightsFresh ==
    (op.kind \in Rotations /\ op.out = "returned") =>
        \A n \in touched(nodes, pre, op) :
            nodes[n].height =
                1 + max(child_height(nodes, nodes[n].left), child_height(nodes, nodes[n].right))

\* C19: a rotation never asks for the pivot's mutex while it holds a guard
\* of that mutex, so it returns.
RotationNeverRelocks ==
    op.kind \in Rotations => (op.relock = None /\ op.out = "returned")

\* the node locks thread t holds
held(t) == {n \in 1..Len(lock) : lock[n] = t}

\* C16: at every point of an insert a thread holds at most two node locks,
\* and once its descent has moved into a child (the insert on the child is
\* running) it no longer holds the lock of the parent.
LockCoupling ==
    \A t \in Threads :
        /\ Cardinality(held(t)) <= 2
        /\ (pc[t] = "insert" /\ Len(stk[t]) >= 2)
           => lock[stk[t][Len(stk[t]) - 1]] # t

====
